---- MODULE Spec2Model ----
(***************************************************************************)
(* Model of wren-ai-service/demo/utils.py: the request/poll operations     *)
(* against the AI service, the identifier-quoting guard in front of the    *)
(* data engine, the user-correction merge, the regeneration click handler  *)
(* and the cumulative (CTE) SQL construction.                              *)
(*                                                                         *)
(* Encoding of Python values.  A Python string that the program only       *)
(* passes around is a TLA+ string; a string the program builds or rewrites *)
(* (SQL text) is a sequence of tokens, concatenated with \o.  None is      *)
(* NoneS ("None") in a slot that otherwise holds a string and NoneR (<<>>) *)
(* in a slot that otherwise holds a structured value, which is stored as   *)
(* the one-element tuple <<value>>.  The candidate list returned by        *)
(* /v1/asks is named by a handle (a string) and looked up with Candidates. *)
(***************************************************************************)
EXTENDS Integers, Sequences, FiniteSets, TLC

VARIABLES
    session_state,    \* st.session_state: the keys utils.py reads and writes
    op,               \* the function being executed ("idle" between calls)
    pc,               \* position inside it
    query_id,         \* local query_id (deployment_id for prepare_semantics)
    status,           \* local *_status of the poll loop
    asks_type,        \* local asks_type of ask
    submit_response,  \* the response to the submit POST, NoneR before it
    status_response,  \* the last response to a status GET, NoneR before it
    posts,            \* submit POSTs issued by this invocation
    gets,             \* status GETs issued by this invocation
    get_key,          \* the id in the URL of the last status GET
    gets_after_terminal, \* status GETs issued after a 200 response carried a terminal status
    result,           \* value returned by the function, NoneR if none (or None)
    st_error,         \* text of the st.error shown by this invocation, <<>> if none
    toast,            \* text of the last st.toast of this invocation, <<>> if none
    stream_req,       \* query id whose SSE stream was requested, NoneS if none
    engine,           \* what the last get_data_from_wren_engine call did
    cache,            \* st.cache_data of get_data_from_wren_engine: arguments -> value
    calls,            \* invocations started so far
    edits,            \* edits of the correction inputs so far
    caller,           \* the click handler that called the running function, NoneS if none
    sql_regeneration_data, \* local of on_click_sql_regeneration_button, NoneR outside it
    dialog,           \* what show_sql_regeneration_results_dialog last built, NoneR if nothing
    rendered,         \* sqls and summaries built by show_asks_details_results, NoneR if none
    stream,           \* the running display_general_response / display_sql_answer, NoneR if none
    choose_result_n   \* local choose_result_n of the last show_asks_results, NoneR if none

vars == <<session_state, op, pc, query_id, status, asks_type, submit_response,
          status_response, posts, gets, get_key, gets_after_terminal, result,
          st_error, toast, stream_req, engine, cache, calls, edits, caller,
          sql_regeneration_data, dialog, rendered, stream, choose_result_n>>

\* The state of the click handlers and of the rendering.
HandlerVars == <<edits, caller, sql_regeneration_data, dialog, rendered, stream,
                 choose_result_n>>

NoneS == "None"
NoneR == <<>>
Some(x) == <<x>>

\* Python truthiness of a status slot: None and "" are falsy.
Truthy(s) == s # NoneS /\ s # ""

(***************************************************************************)
(* Bounds of the model.                                                    *)
(***************************************************************************)
MaxCalls == 2      \* invocations in one behaviour
MaxPolls == 2      \* status GETs of one invocation
MaxSteps == 3      \* steps in an ask-details / regeneration result
MaxSqlLen == 2     \* tokens in a SQL text handed to add_quotes
MaxEdits == 4      \* edits of the correction inputs in one behaviour
MaxEvents == 3     \* events of one server-sent-event stream

(***************************************************************************)
(* The values the collaborators (AI service, data engine, user) supply.    *)
(***************************************************************************)
DATA_SOURCES == {"duckdb", "bigquery", "postgres"}

Operations == {"prepare_semantics", "ask", "get_sql_answer", "ask_details",
               "sql_explanation", "sql_regeneration"}

\* Status values of the AI service: "indexing" stands for the in-progress
\* values, and "" is a (falsy) status a response may carry too.
Statuses == {"", "indexing", "finished", "succeeded", "failed", "stopped"}

AsksTypes == {"GENERAL", "TEXT_TO_SQL", "MISLEADING_QUERY"}

StatusCodes == {200, 500}
QueryIds == {"id1", "id2"}
DeploymentId == "dep"
Queries == {"q1", "q2"}
Errors == {"e1", "e2"}

\* Handles of the candidate lists /v1/asks can answer with.
AsksResponses == {"cands_a", "cands_b"}

Candidates(h) ==
    IF h = "cands_a" THEN << [sql |-> "sql_a0"], [sql |-> "sql_a1"] >>
    ELSE IF h = "cands_b" THEN << [sql |-> "sql_b0"] >>
    ELSE << >>

\* The question a candidate list is the service's answer to.
AnswerTo(h) == IF h = "cands_a" THEN "q1" ELSE IF h = "cands_b" THEN "q2" ELSE NoneS

\* One step of an ask-details result.
Step(c, s, m) == [cte_name |-> c, sql |-> s, summary |-> m]

StepPool == << Step("c0", "s0", "m0"), Step("c1", "s1", "m1"),
               Step("c2", "s2", "m2"), Step("c3", "s3", "m3") >>

\* Steps that differ from those of StepPool in their SQL and summary.
AltStepPool == << Step("c0", "r0", "m0"), Step("c1", "r1", "n1"),
                  Step("c2", "r2", "n2"), Step("c3", "r3", "n3") >>

\* The ask-details / regeneration results the service can answer with, of
\* 1..MaxSteps steps.
DetailsResponses ==
    { [description |-> "d1", steps |-> SubSeq(StepPool, 1, n)] : n \in 1..MaxSteps }
    \cup
    { [description |-> "d2", steps |-> SubSeq(AltStepPool, 1, n)] : n \in 1..MaxSteps }

(***************************************************************************)
(* SQL explanation entries (the payload shape depends on the type).        *)
(***************************************************************************)
Relation(p) == [type |-> "relation", payload |-> p]
Expr(t, e) == [type |-> t, payload |-> [expression |-> e]]

\* The explanation entries of each step, in the order the service lists them.
StepExplanations ==
    << << Relation([type |-> "TABLE", tableName |-> "t"]),
          Relation([type |-> "INNER_JOIN", criteria |-> "t"]),
          Expr("filter", "x") >>,
       << Expr("sortings", "x"),
          Relation([type |-> "SUBQUERY"]) >>,
       << [type |-> "groupByKeys", payload |-> [keys |-> "k"]] >>,
       << Expr("selectItems", "x"),
          [type |-> "limit", payload |-> [count |-> "n"]] >> >>

\* The explanation results the service can answer with: one list of entries
\* per step.
ExplanationResponses ==
    { SubSeq(StepExplanations, 1, n) : n \in 1..MaxSteps }

(***************************************************************************)
(* Responses of the AI service.  A response carries `response` only with   *)
(* status finished and `error` only with status failed or stopped, as the  *)
(* endpoints document ({status, type, response|error}).                    *)
(***************************************************************************)
ResponsePayloads(o) ==
    IF o = "ask" THEN AsksResponses
    ELSE IF o \in {"ask_details", "sql_regeneration"}
         THEN { Some(d) : d \in DetailsResponses }
    ELSE IF o = "sql_explanation" THEN { Some(x) : x \in ExplanationResponses }
    ELSE {NoneR}

NoResponse(o) == IF o = "ask" THEN NoneS ELSE NoneR

SubmitResponses(o) ==
    [code : StatusCodes,
     query_id : IF o = "prepare_semantics" THEN {DeploymentId, "id1"} ELSE QueryIds]

StatusResponses(o) ==
    { [code |-> c, status |-> s, type |-> t, response |-> r, error |-> e] :
        c \in StatusCodes, s \in Statuses,
        t \in (IF o = "ask" THEN AsksTypes ELSE {NoneS}),
        r \in ResponsePayloads(o) \cup {NoResponse(o)},
        e \in Errors \cup {NoneS} }

WellFormed(o, r) ==
    /\ (r.status = "finished" /\ r.code = 200 /\ o \notin {"prepare_semantics", "get_sql_answer"})
         <=> r.response # NoResponse(o)
    /\ (r.status \in {"failed", "stopped"} /\ r.code = 200 /\ o # "prepare_semantics")
         <=> r.error # NoneS
    /\ r.code # 200 =>
          /\ r.status \in {"finished", "failed"}
          /\ o = "ask" => r.type = "GENERAL"

(***************************************************************************)
(* add_quotes and get_data_from_wren_engine.                               *)
(*                                                                         *)
(* SQL text is a sequence of tokens.  sqlglot is a library outside this    *)
(* repository; of it the model keeps what add_quotes relies on: transpile  *)
(* raises on text it cannot parse, and with identify=True returns the text *)
(* with every identifier quoted.  The grammar is SELECT followed by one    *)
(* (quoted or bare) identifier; the texts handed in hold bare ones.        *)
(***************************************************************************)
Idents == {"a"}
QuotedIdents == {"\"a\""}
Tokens == {"SELECT", ")"} \cup Idents

Sqls == UNION { [1..n -> Tokens] : n \in 1..MaxSqlLen }

Quote(tok) == IF tok = "a" THEN "\"a\"" ELSE tok

Parses(sql) ==
    /\ Len(sql) = 2
    /\ sql[1] = "SELECT"
    /\ sql[2] \in Idents \cup QuotedIdents

\* sqlglot.transpile(sql, read="trino", identify=True)[0], for text that parses
transpile(sql) == [i \in 1..Len(sql) |-> Quote(sql[i])]

add_quotes(sql) ==
    IF Parses(sql)
    THEN [quoted_sql |-> transpile(sql), no_error |-> TRUE]
    ELSE [quoted_sql |-> sql, no_error |-> FALSE]

\* What the data engine can answer: a status code and a {columns, data} payload.
EnginePayloads == {"rows1", "rows2"}
EngineResponses ==
    { [code |-> 200, json |-> p] : p \in EnginePayloads }
    \cup { [code |-> 500, json |-> "error"] }

Raised(req, exc) == [request |-> req, outcome |-> exc, value |-> NoneS]
Returned(req, kind, v) == [request |-> req, outcome |-> kind, value |-> v]

get_data_from_wren_engine_unasserted(sql, dataset_type, return_df, response) ==
    LET q == add_quotes(sql)
        req == Some([method |-> IF dataset_type = "duckdb" THEN "GET" ELSE "POST",
                     api |-> IF dataset_type = "duckdb" THEN "/v1/mdl/preview"
                             ELSE "/v2/connector/query",
                     sql |-> q.quoted_sql]) IN
    IF response.code # 200 THEN Raised(req, "AssertionError")
    ELSE IF return_df THEN Returned(req, "DataFrame", response.json)
    ELSE IF dataset_type = "duckdb" THEN Raised(req, "UnboundLocalError")
    ELSE Returned(req, "json", response.json)

\* One uncached execution of the body of get_data_from_wren_engine; response
\* is what the engine answers if it is asked.
get_data_from_wren_engine(sql, dataset_type, return_df, response) ==
    LET q == add_quotes(sql) IN
    IF dataset_type = "duckdb"
    THEN IF ~q.no_error THEN Raised(NoneR, "AssertionError")
         ELSE LET req == Some([method |-> "GET", api |-> "/v1/mdl/preview",
                               sql |-> q.quoted_sql]) IN
              IF response.code # 200 THEN Raised(req, "AssertionError")
              ELSE IF return_df THEN Returned(req, "DataFrame", response.json)
              ELSE Raised(req, "UnboundLocalError")
    ELSE IF ~q.no_error THEN Raised(NoneR, "AssertionError")
         ELSE LET req == Some([method |-> "POST", api |-> "/v2/connector/query",
                               sql |-> q.quoted_sql]) IN
              IF response.code # 200 THEN Raised(req, "AssertionError")
              ELSE IF return_df THEN Returned(req, "DataFrame", response.json)
              ELSE Returned(req, "json", response.json)

\* A call of get_data_from_wren_engine: its arguments, the engine's answer
\* (had it been asked) and what the call did.
EngineCall(sql, dataset_type, return_df, response, e) ==
    [sql |-> sql, dataset_type |-> dataset_type, return_df |-> return_df,
     response |-> response, out |-> e]

\* st.cache_data: a call whose arguments were seen before returns the stored
\* value and runs nothing; a call that raises stores nothing.
CacheKey(sql, dataset_type, return_df) == <<sql, dataset_type, return_df>>

cached_get_data(c, sql, dataset_type, return_df, response) ==
    LET k == CacheKey(sql, dataset_type, return_df) IN
    IF k \in DOMAIN c
    THEN [c[k] EXCEPT !.request = NoneR]
    ELSE get_data_from_wren_engine(sql, dataset_type, return_df, response)

cache_after(c, sql, dataset_type, return_df, e) ==
    LET k == CacheKey(sql, dataset_type, return_df) IN
    IF k \notin DOMAIN c /\ e.outcome \in {"DataFrame", "json"}
    THEN [x \in DOMAIN c \cup {k} |-> IF x = k THEN e ELSE c[x]]
    ELSE c

(***************************************************************************)
(* The session store.                                                      *)
(***************************************************************************)
FreshSession ==
    [query |-> NoneS,
     asks_results |-> NoneS,
     asks_results_type |-> NoneS,
     chosen_query_result |-> NoneR,
     asks_details_result |-> NoneR,
     preview_data_button_index |-> NoneR,
     preview_sql |-> NoneR,
     query_history |-> NoneR,
     semantics_preparation_status |-> NoneS,
     sql_explanation_question |-> NoneS,
     sql_explanation_steps_with_analysis |-> NoneR,
     sql_analysis_results |-> NoneR,
     sql_explanation_results |-> NoneR,
     sql_user_corrections_by_step |-> NoneR,
     sql_regeneration_results |-> NoneR,
     user_correction |-> NoneR,
     deployment_id |-> DeploymentId,
     dataset_type |-> "duckdb"]

\* A session in which a candidate of an earlier ask has been chosen.
ChosenSession ==
    [FreshSession EXCEPT
        !.query = "q1",
        !.asks_results = "cands_a",
        !.asks_results_type = "TEXT_TO_SQL",
        !.semantics_preparation_status = "finished",
        !.chosen_query_result =
            Some([index |-> 0, query |-> "q1", sql |-> <<"SELECT", "a">>])]

(***************************************************************************)
(* The poll loops' conditions, as written in the source.                   *)
(***************************************************************************)
prepare_semantics_loop(s) == ~Truthy(s) \/ s = "indexing"

ask_loop_without_stopped(s) ==
    ~Truthy(s) \/ (s # "finished" /\ s # "failed")

ask_loop(s) ==
    ~Truthy(s) \/ (s # "finished" /\ s # "failed" /\ s # "stopped")

get_sql_answer_loop_finished(s) ==
    ~Truthy(s) \/ (s # "finished" /\ s # "failed")

get_sql_answer_loop(s) == ~Truthy(s) \/ (s # "succeeded" /\ s # "failed")

ask_details_loop(s) == (s # "finished" /\ s # "failed") \/ ~Truthy(s)

sql_explanation_loop(s) == (s # "finished" /\ s # "failed") \/ ~Truthy(s)

sql_regeneration_loop(s) == (s # "finished" /\ s # "failed") \/ ~Truthy(s)

\* The status the loop of the running operation tests.
LoopStatus ==
    IF op = "prepare_semantics"
    THEN session_state.semantics_preparation_status
    ELSE status

LoopCondition ==
    CASE op = "prepare_semantics" -> prepare_semantics_loop(LoopStatus)
      [] op = "ask" -> ask_loop(LoopStatus)
      [] op = "get_sql_answer" -> get_sql_answer_loop(LoopStatus)
      [] op = "ask_details" -> ask_details_loop(LoopStatus)
      [] op = "sql_explanation" -> sql_explanation_loop(LoopStatus)
      [] op = "sql_regeneration" -> sql_regeneration_loop(LoopStatus)
      [] OTHER -> FALSE

\* Whether the operation asserts status_code == 200 on a status GET:
\* prepare_semantics reads the body without looking at the code.
AssertsStatusGet(o) == o # "prepare_semantics"

\* The terminal statuses of each operation's loop.
TerminalSet(o) ==
    CASE o = "prepare_semantics" -> Statuses \ {"", "indexing"}
      [] o = "ask" -> {"finished", "failed", "stopped"}
      [] o = "get_sql_answer" -> {"succeeded", "failed"}
      [] o \in {"ask_details", "sql_explanation", "sql_regeneration"} ->
            {"finished", "failed"}
      [] OTHER -> {}

\* A status GET's body that has no "status" key: reading it raises KeyError.
Missing == "<no status key>"

PollResponses(o) ==
    { r \in StatusResponses(o) : WellFormed(o, r) }
    \cup { [code |-> 500, status |-> Missing,
            type |-> (IF o = "ask" THEN "GENERAL" ELSE NoneS),
            response |-> NoResponse(o), error |-> NoneS] }

ProcessingError_fixed(e) == <<"An error occurred while processing the query: ", "">>

ProcessingError(e) == <<"An error occurred while processing the query: ", e>>
StatusToast(s) == <<"The query processing status: ", s>>

\* The SQL texts get_sql_answer is called with.
AnswerSqls == { <<"SELECT", "a">>, <<"SELECT", ")">> }

(***************************************************************************)
(* Initial states: a fresh session, or one with a chosen candidate.        *)
(***************************************************************************)
Idle ==
    /\ op = "idle"
    /\ pc = "idle"
    /\ query_id = NoneS
    /\ status = NoneS
    /\ asks_type = NoneS
    /\ submit_response = NoneR
    /\ status_response = NoneR
    /\ posts = 0
    /\ gets = 0
    /\ get_key = NoneS
    /\ gets_after_terminal = 0
    /\ result = NoneR
    /\ st_error = <<>>
    /\ toast = <<>>
    /\ stream_req = NoneS
    /\ engine = NoneR
    /\ cache = <<>>
    /\ calls = 0
    /\ edits = 0
    /\ caller = NoneS
    /\ sql_regeneration_data = NoneR
    /\ dialog = NoneR
    /\ rendered = NoneR
    /\ stream = NoneR
    /\ choose_result_n = NoneR

Init ==
    /\ Idle
    /\ \E d \in DATA_SOURCES, base \in {FreshSession, ChosenSession} :
          session_state = [base EXCEPT !.dataset_type = d]

(***************************************************************************)
(* Entering one of the polled functions.                                   *)
(***************************************************************************)
Call ==
    /\ UNCHANGED HandlerVars
    /\ pc \in {"idle", "done", "raised"}
    /\ calls < MaxCalls
    /\ calls' = calls + 1
    /\ \E o \in Operations, q \in Queries :
          /\ op' = o
          /\ pc' = IF o = "get_sql_answer" THEN "engine" ELSE "submit"
          /\ session_state' =
                IF o = "ask"   \* line 650, before the POST
                THEN [session_state EXCEPT !.query = q]
                ELSE session_state
    /\ query_id' = NoneS
    /\ status' = NoneS
    /\ asks_type' = NoneS
    /\ submit_response' = NoneR
    /\ status_response' = NoneR
    /\ posts' = 0
    /\ gets' = 0
    /\ get_key' = NoneS
    /\ gets_after_terminal' = 0
    /\ result' = NoneR
    /\ st_error' = <<>>
    /\ toast' = <<>>
    /\ stream_req' = NoneS
    /\ engine' = NoneR
    /\ UNCHANGED cache

\* get_sql_answer, lines 730-735: the rows it sends along are fetched first.
get_sql_answer_fetch ==
    /\ UNCHANGED HandlerVars
    /\ op = "get_sql_answer" /\ pc = "engine"
    /\ \E sql \in AnswerSqls, r \in EngineResponses :
          LET e == cached_get_data(cache, sql, session_state.dataset_type, FALSE, r) IN
          /\ engine' = Some(EngineCall(sql, session_state.dataset_type, FALSE, r, e))
          /\ cache' = cache_after(cache, sql, session_state.dataset_type, FALSE, e)
          /\ pc' = IF e.outcome = "json" THEN "submit" ELSE "raised"
    /\ UNCHANGED <<session_state, op, query_id, status, asks_type, submit_response,
                   status_response, posts, gets, get_key, gets_after_terminal,
                   result, st_error, toast, stream_req, calls>>

\* The submit POST and the assertions on its response.
Submit ==
    /\ UNCHANGED HandlerVars
    /\ pc = "submit"
    /\ IF op = "ask_details" /\ session_state.chosen_query_result = NoneR
       THEN \* None["query"] raises TypeError while the request body is built
            /\ pc' = "raised"
            /\ UNCHANGED <<posts, submit_response, query_id>>
       ELSE \E r \in SubmitResponses(op) :
            /\ posts' = posts + 1
            /\ submit_response' = Some(r)
            /\ IF r.code # 200
                  \/ (op = "prepare_semantics" /\ r.query_id # session_state.deployment_id)
               THEN pc' = "raised" /\ UNCHANGED query_id
               ELSE /\ pc' = "loop"
                    /\ query_id' = IF op = "prepare_semantics"
                                   THEN session_state.deployment_id
                                   ELSE r.query_id
    /\ UNCHANGED <<session_state, op, status, asks_type, status_response, gets,
                   get_key, gets_after_terminal, result, st_error, toast,
                   stream_req, engine, cache, calls>>

\* Whether the last status GET was answered 200 with a terminal status.
TerminalObserved ==
    /\ status_response # NoneR
    /\ status_response[1].code = 200
    /\ status_response[1].status \in TerminalSet(op)

\* One iteration of the loop: the status GET and what is read from it.
Poll ==
    /\ UNCHANGED HandlerVars
    /\ pc = "loop"
    /\ LoopCondition
    /\ gets < MaxPolls
    /\ \E r \in PollResponses(op) :
          \* the candidates /v1/asks answers with are those of the question asked
          /\ (op = "ask" /\ r.response \in AsksResponses) =>
                AnswerTo(r.response) = session_state.query
          /\ gets' = gets + 1
          /\ get_key' = query_id
          /\ status_response' = Some(r)
          /\ gets_after_terminal' =
                IF TerminalObserved THEN gets_after_terminal + 1
                ELSE gets_after_terminal
          /\ IF (AssertsStatusGet(op) /\ r.code # 200) \/ r.status = Missing
             THEN /\ pc' = "raised"
                  /\ UNCHANGED <<session_state, status, asks_type, toast>>
             ELSE /\ pc' = "loop"
                  /\ IF op = "prepare_semantics"
                     THEN /\ session_state' =
                               [session_state EXCEPT
                                  !.semantics_preparation_status = r.status]
                          /\ UNCHANGED <<status, toast>>
                     ELSE /\ status' = r.status
                          /\ toast' = StatusToast(r.status)
                          /\ UNCHANGED session_state
                  /\ asks_type' = IF op = "ask" THEN r.type ELSE asks_type
    /\ UNCHANGED <<op, query_id, submit_response, posts, result, st_error,
                   stream_req, engine, cache, calls>>

(***************************************************************************)
(* The code after each loop.                                               *)
(***************************************************************************)
LoopLeft(o) == op = o /\ pc = "loop" /\ ~LoopCondition

PollFrame == <<op, query_id, status, asks_type, submit_response, status_response,
               posts, gets, get_key, gets_after_terminal, engine, cache, calls>>

prepare_semantics_done ==
    /\ UNCHANGED HandlerVars
    /\ LoopLeft("prepare_semantics")
    /\ pc' = "done"
    /\ session_state' =
          [session_state EXCEPT
             !.query = NoneS,
             !.asks_results = NoneS,
             !.chosen_query_result = NoneR,
             !.asks_details_result = NoneR,
             !.preview_data_button_index = NoneR,
             !.preview_sql = NoneR,
             !.query_history = NoneR]
    /\ toast' = IF session_state.semantics_preparation_status = "failed"
                THEN <<"An error occurred while preparing the semantics">>
                ELSE <<"Semantics is prepared successfully">>
    /\ UNCHANGED <<PollFrame, result, st_error, stream_req>>

asks_results_finished_type(prev, type, response) ==
    IF type = "GENERAL" THEN prev ELSE type

\* What a finished ask leaves in asks_results (lines 683-688).
asks_results_finished(prev, type, response) ==
    IF type = "GENERAL" THEN prev
    ELSE IF type = "TEXT_TO_SQL" THEN response.response
    ELSE type

ask_done ==
    /\ UNCHANGED HandlerVars
    /\ LoopLeft("ask")
    /\ pc' = "done"
    /\ IF status = "finished"
       THEN /\ session_state' =
                 [session_state EXCEPT
                    !.asks_results_type = asks_type,
                    !.asks_results =
                       asks_results_finished(@, asks_type, status_response[1])]
            \* display_general_response(query_id) opens the streaming result
            /\ stream_req' = IF asks_type = "GENERAL" THEN query_id ELSE stream_req
            /\ UNCHANGED st_error
       ELSE /\ st_error' = IF status = "failed"
                           THEN ProcessingError(status_response[1].error)
                           ELSE st_error
            /\ UNCHANGED <<session_state, stream_req>>
    /\ UNCHANGED <<PollFrame, result, toast>>

get_sql_answer_done ==
    /\ UNCHANGED HandlerVars
    /\ LoopLeft("get_sql_answer")
    /\ pc' = "done"
    \* display_sql_answer(query_id) opens the streaming answer
    /\ stream_req' = IF status = "succeeded" THEN query_id ELSE stream_req
    /\ st_error' = IF status = "failed"
                   THEN ProcessingError(status_response[1].error)
                   ELSE st_error
    /\ UNCHANGED <<PollFrame, session_state, result, toast>>

ask_details_done ==
    /\ UNCHANGED HandlerVars
    /\ LoopLeft("ask_details")
    /\ pc' = "done"
    /\ session_state' =
          IF status = "finished"
          THEN [session_state EXCEPT
                  !.asks_details_result = status_response[1].response,
                  !.sql_explanation_question = NoneS,
                  !.sql_explanation_steps_with_analysis = NoneR,
                  !.sql_analysis_results = NoneR,
                  !.sql_explanation_results = NoneR]
          ELSE session_state
    /\ st_error' = IF status = "failed"
                   THEN ProcessingError(status_response[1].error)
                   ELSE st_error
    /\ UNCHANGED <<PollFrame, result, toast, stream_req>>

sql_explanation_done ==
    /\ UNCHANGED HandlerVars
    /\ LoopLeft("sql_explanation")
    /\ pc' = "done"
    /\ result' = IF status = "finished" THEN status_response[1].response ELSE NoneR
    /\ st_error' = IF status = "failed"
                   THEN ProcessingError(status_response[1].error)
                   ELSE st_error
    /\ UNCHANGED <<PollFrame, session_state, toast, stream_req>>

sql_regeneration_done ==
    /\ UNCHANGED HandlerVars
    /\ LoopLeft("sql_regeneration")
    /\ pc' = "done"
    /\ result' = IF status = "finished" THEN status_response[1].response ELSE NoneR
    /\ st_error' = IF status = "failed"
                   THEN ProcessingError(status_response[1].error)
                   ELSE st_error
    /\ UNCHANGED <<PollFrame, session_state, toast, stream_req>>

Next ==
    \/ Call
    \/ get_sql_answer_fetch
    \/ Submit
    \/ Poll
    \/ prepare_semantics_done
    \/ ask_done
    \/ get_sql_answer_done
    \/ ask_details_done
    \/ sql_explanation_done
    \/ sql_regeneration_done

Spec == Init /\ [][Next]_vars

\* One invocation, from any of the initial sessions.  The statements of a
\* running function execute one after the other, so each of its steps is
\* taken once it is enabled; whether the user makes a call is up to the user.
CallOnce == calls = 0 /\ Call

NextOnce ==
    \/ CallOnce
    \/ get_sql_answer_fetch
    \/ Submit
    \/ Poll
    \/ prepare_semantics_done
    \/ ask_done
    \/ get_sql_answer_done
    \/ ask_details_done
    \/ sql_explanation_done
    \/ sql_regeneration_done

FairSpec ==
    /\ Init
    /\ [][NextOnce]_vars
    /\ WF_vars(get_sql_answer_fetch)
    /\ WF_vars(Submit)
    /\ WF_vars(Poll)
    /\ WF_vars(prepare_semantics_done \/ ask_done \/ get_sql_answer_done
                \/ ask_details_done \/ sql_explanation_done
                \/ sql_regeneration_done)

(***************************************************************************)
(* get_data_from_wren_engine on its own: any SQL text, with or without a   *)
(* DataFrame, against the session's dataset type (what every caller        *)
(* passes).                                                                *)
(***************************************************************************)
get_data_call ==
    /\ UNCHANGED HandlerVars
    /\ pc = "idle"
    /\ \E sql \in Sqls, return_df \in BOOLEAN, r \in EngineResponses :
          LET d == session_state.dataset_type
              e == cached_get_data(cache, sql, d, return_df, r) IN
          /\ engine' = Some(EngineCall(sql, d, return_df, r, e))
          /\ cache' = cache_after(cache, sql, d, return_df, e)
    /\ UNCHANGED <<session_state, op, pc, query_id, status, asks_type,
                   submit_response, status_response, posts, gets, get_key,
                   gets_after_terminal, result, st_error, toast, stream_req,
                   calls>>

EngineNext == get_data_call

EngineInit ==
    /\ Idle
    /\ \E d \in DATA_SOURCES :
          session_state = [FreshSession EXCEPT !.dataset_type = d]

EngineSpec == EngineInit /\ [][EngineNext]_vars

(***************************************************************************)
(* on_change_user_correction.  The text inputs are the session keys        *)
(* user_correction_{i}_{j}; the framework stores the edited text under the *)
(* key and then runs the callback, and it runs it only when the text       *)
(* differs from what the key held.                                         *)
(***************************************************************************)
CorrectionTexts == {"", "v1", "v2"}

JoinTypes == {"INNER_JOIN", "LEFT_JOIN", "RIGHT_JOIN", "FULL_JOIN", "CROSS_JOIN"}

DecisionPoint(t, v) == Some([type |-> t, value |-> v])

\* Lines 429-460; a path that reaches no return yields None.
get_decision_point(explanation_result) ==
    LET e == explanation_result IN
    IF e.type = "relation"
    THEN IF e.payload.type = "TABLE"
         THEN DecisionPoint(e.type, e.payload.tableName)
         ELSE IF e.payload.type \in JoinTypes
              THEN DecisionPoint(e.type, e.payload.criteria)
         ELSE NoneR
    ELSE IF e.type = "filter" THEN DecisionPoint(e.type, e.payload.expression)
    ELSE IF e.type = "groupByKeys" THEN DecisionPoint(e.type, e.payload.keys)
    ELSE IF e.type = "sortings" THEN DecisionPoint(e.type, e.payload.expression)
    ELSE IF e.type = "selectItems" THEN DecisionPoint(e.type, e.payload.expression)
    ELSE NoneR

NlExpression(v) == [type |-> "nl_expression", value |-> v]

Pop_last(list, i) == SubSeq(list, 1, Len(list) - 1)

\* list.pop(i), 1-based
Pop(list, i) == SubSeq(list, 1, i - 1) \o SubSeq(list, i + 1, Len(list))

\* The index at which the for loop of lines 465-483 stops: that of the first
\* entry whose `before` is the decision point, 0 if it runs to the end.
FirstMatch(list, decision_point) ==
    IF \E i \in 1..Len(list) : list[i].before = decision_point
    THEN CHOOSE i \in 1..Len(list) :
            /\ list[i].before = decision_point
            /\ \A k \in 1..(i - 1) : list[k].before # decision_point
    ELSE 0

merge_correction_append(list, decision_point, text) ==
    Append(list, [before |-> decision_point, after |-> NlExpression(text)])

\* Lines 462-496 on the correction list of the step; text is the content of
\* the edited input.
merge_correction(list, decision_point, text) ==
    LET i == FirstMatch(list, decision_point) IN
    IF i # 0
    THEN IF text # ""
         THEN [list EXCEPT ![i].after = NlExpression(text)]
         ELSE Pop(list, i)
    ELSE Append(list, [before |-> decision_point, after |-> NlExpression(text)])

on_change_user_correction(ss, step_idx, explanation_index, explanation_result) ==
    LET decision_point == get_decision_point(explanation_result)
        text == ss.user_correction[1][step_idx][explanation_index]
        by_step == ss.sql_user_corrections_by_step[1] IN
    [ss EXCEPT !.sql_user_corrections_by_step =
        Some([by_step EXCEPT ![step_idx] =
                 merge_correction(by_step[step_idx], decision_point, text)])]

\* The user edits one of the inputs rendered at lines 346-358.
edit_user_correction ==
    /\ pc = "idle"
    /\ edits < MaxEdits
    /\ edits' = edits + 1
    /\ session_state.sql_explanation_results # NoneR
    /\ LET expl == session_state.sql_explanation_results[1]
           steps == session_state.asks_details_result[1].steps IN
       \E i \in 1..Len(steps) :
       \E j \in 1..Len(expl[i]) :
       \E text \in CorrectionTexts :
          /\ text # session_state.user_correction[1][i][j]
          /\ session_state' =
                on_change_user_correction(
                    [session_state EXCEPT !.user_correction[1][i][j] = text],
                    i, j, expl[i][j])
    /\ UNCHANGED <<op, pc, query_id, status, asks_type, submit_response,
                   status_response, posts, gets, get_key, gets_after_terminal,
                   result, st_error, toast, stream_req, engine, cache, calls,
                   caller, sql_regeneration_data, dialog, rendered, stream,
                   choose_result_n>>

\* The session once ask_details and the SQL explanation have finished
\* (lines 797-804 and 418-423), for a result of n steps.
ExplainedSession(n) ==
    [ChosenSession EXCEPT
        !.asks_details_result =
            Some([description |-> "d1", steps |-> SubSeq(StepPool, 1, n)]),
        !.sql_explanation_question = "q1",
        !.sql_explanation_steps_with_analysis = Some([i \in 1..n |-> "analysis"]),
        !.sql_analysis_results = Some([i \in 1..n |-> "analysis"]),
        !.sql_explanation_results = Some(SubSeq(StepExplanations, 1, n)),
        !.sql_user_corrections_by_step = Some([i \in 1..n |-> <<>>]),
        !.user_correction =
            Some([i \in 1..n |-> [j \in 1..Len(StepExplanations[i]) |-> ""]])]

CorrectionInit ==
    /\ Idle
    /\ \E n \in 1..MaxSteps : session_state = ExplainedSession(n)

CorrectionNext == edit_user_correction

CorrectionSpec == CorrectionInit /\ [][CorrectionNext]_vars

(***************************************************************************)
(* The cumulative SQL of the steps.  The same loop is written three times: *)
(* in show_asks_details_results (256-274) and for both columns of the      *)
(* regeneration dialog (897-913, 929-953).  A Python string is the         *)
(* sequence of the pieces it is concatenated from.                         *)
(***************************************************************************)
RECURSIVE Join(_, _)
\* sep.join(list)
Join(sep, list) ==
    IF list = <<>> THEN <<>>
    ELSE IF Len(list) = 1 THEN list[1]
    ELSE list[1] \o <<sep>> \o Join(sep, Tail(list))

\* f"{step['cte_name']} AS ( {step['sql']} )"
CteFragment(step) == <<step.cte_name, " AS ( ", step.sql, " )">>

\* The loop body, had the step's own fragment been added before its SQL is built.
StepSql_own_cte(sqls_with_cte, step) ==
    <<"WITH ">> \o Join(",\n", Append(sqls_with_cte, CteFragment(step)))
    \o <<"\n\n">> \o <<step.sql>>

\* The body of the loop up to sql += step["sql"]
StepSql(sqls_with_cte, step) ==
    (IF sqls_with_cte # <<>>
     THEN <<"WITH ">> \o Join(",\n", sqls_with_cte) \o <<"\n\n">>
     ELSE <<>>)
    \o <<step.sql>>

RECURSIVE cumulative_loop(_, _, _, _)
cumulative_loop(steps, i, sqls_with_cte, sqls) ==
    IF i > Len(steps) THEN sqls
    ELSE cumulative_loop(steps, i + 1,
                         Append(sqls_with_cte, CteFragment(steps[i])),
                         Append(sqls, StepSql(sqls_with_cte, steps[i])))

cumulative_sqls(steps) == cumulative_loop(steps, 1, <<>>, <<>>)

\* show_asks_details_results, lines 256-274: the SQL and summary of each step
\* (the lists handed to the buttons below them).
render_steps ==
    /\ pc = "idle"
    /\ session_state.asks_details_result # NoneR
    /\ LET steps == session_state.asks_details_result[1].steps IN
       rendered' = Some([sqls |-> cumulative_sqls(steps),
                         summaries |-> [i \in 1..Len(steps) |-> steps[i].summary]])
    /\ UNCHANGED <<session_state, op, pc, query_id, status, asks_type,
                   submit_response, status_response, posts, gets, get_key,
                   gets_after_terminal, result, st_error, toast, stream_req,
                   engine, cache, calls, edits, caller, sql_regeneration_data,
                   dialog, stream, choose_result_n>>

(***************************************************************************)
(* on_click_sql_regeneration_button and the dialog it opens.               *)
(***************************************************************************)
\* A click handler is inside the polled function it calls, or has it returned
\* and not yet finished itself.
InHandler ==
    /\ caller # NoneS
    /\ op \in {"sql_explanation", "sql_regeneration"}
    /\ pc \in {"submit", "loop", "done"}

\* No function is running: the script is waiting for the user.
AtRest == pc \in {"idle", "raised"} \/ (pc = "done" /\ ~InHandler)

\* An assignment in place of the copy: the same object.
deepcopy_alias(x) == [value |-> x, same_object |-> TRUE]

\* copy.deepcopy(x): an equal value in a new object.  same_object tells
\* whether a write through the result is a write to x.
deepcopy(x) == [value |-> x, same_object |-> FALSE]

WithCorrections(step, corrections) ==
    [cte_name |-> step.cte_name, sql |-> step.sql, summary |-> step.summary,
     corrections |-> corrections]

Min(a, b) == IF a <= b THEN a ELSE b

\* Lines 504-510: zip stops at the shorter of the two lists.
attach_corrections(data, by_step) ==
    [data EXCEPT !.steps =
        [i \in 1..Len(data.steps) |->
            IF i <= Min(Len(data.steps), Len(by_step))
            THEN WithCorrections(data.steps[i], by_step[i])
            ELSE data.steps[i]]]

\* Lines 503-513, up to the call of sql_regeneration; the arguments are the
\* session's asks_details_result and sql_user_corrections_by_step (366-375).
on_click_sql_regeneration_button ==
    /\ AtRest
    /\ calls < MaxCalls
    /\ calls' = calls + 1
    /\ session_state.asks_details_result # NoneR
    /\ session_state.sql_user_corrections_by_step # NoneR
    /\ LET copy == deepcopy(session_state.asks_details_result[1])
           data == attach_corrections(
                       copy.value, session_state.sql_user_corrections_by_step[1]) IN
       /\ sql_regeneration_data' = Some(data)
       /\ session_state' =
             IF copy.same_object
             THEN [session_state EXCEPT !.asks_details_result = Some(data)]
             ELSE session_state
    /\ caller' = "on_click_sql_regeneration_button"
    /\ op' = "sql_regeneration"
    /\ pc' = "submit"
    /\ query_id' = NoneS
    /\ status' = NoneS
    /\ submit_response' = NoneR
    /\ status_response' = NoneR
    /\ posts' = 0
    /\ gets' = 0
    /\ get_key' = NoneS
    /\ gets_after_terminal' = 0
    /\ result' = NoneR
    /\ st_error' = <<>>
    /\ toast' = <<>>
    /\ UNCHANGED <<asks_type, stream_req, engine, cache, edits, dialog, rendered,
                   stream, choose_result_n>>

\* What show_sql_regeneration_results_dialog builds (883-953): the SQL of the
\* steps before and after, what is marked as changed, and the exception that
\* ends it, if any.
show_sql_regeneration_results_dialog(ss) ==
    LET before == ss.asks_details_result[1]
        original_sqls == cumulative_sqls(before.steps) IN
    IF ss.sql_regeneration_results = NoneR
    THEN [original_sqls |-> original_sqls, regenerated_sqls |-> <<>>,
          description_changed |-> FALSE, sql_changed |-> <<>>,
          exception |-> "TypeError"]
    ELSE LET after == ss.sql_regeneration_results[1]
             n == Min(Len(after.steps), Len(before.steps))
             sqls == cumulative_sqls(after.steps) IN
         [original_sqls |-> original_sqls,
          regenerated_sqls |-> SubSeq(sqls, 1, n),
          description_changed |-> after.description # before.description,
          sql_changed |-> [i \in 1..n |-> sqls[i] # original_sqls[i]],
          exception |-> IF Len(after.steps) > Len(before.steps)
                        THEN "IndexError" ELSE NoneS]

\* Lines 512-515, once sql_regeneration has returned.
regeneration_dialog ==
    /\ caller = "on_click_sql_regeneration_button"
    /\ op = "sql_regeneration" /\ pc = "done"
    /\ LET ss == [session_state EXCEPT !.sql_regeneration_results = result]
           d == show_sql_regeneration_results_dialog(ss) IN
       /\ session_state' = ss
       /\ dialog' = Some(d)
       /\ pc' = IF d.exception = NoneS THEN "idle" ELSE "raised"
    /\ op' = "idle"
    /\ caller' = NoneS
    /\ sql_regeneration_data' = NoneR
    /\ UNCHANGED <<query_id, status, asks_type, submit_response, status_response,
                   posts, gets, get_key, gets_after_terminal, result, st_error,
                   toast, stream_req, engine, cache, calls, edits, rendered,
                   stream, choose_result_n>>

\* A session with corrections entered: the explained session after the edits.
Edited(ss, i, j, text) ==
    on_change_user_correction(
        [ss EXCEPT !.user_correction[1][i][j] = text],
        i, j, ss.sql_explanation_results[1][i][j])

CorrectedSessions(n) ==
    { ExplainedSession(n),
      Edited(ExplainedSession(n), 1, 1, "v1"),
      Edited(Edited(ExplainedSession(n), 1, 3, "v2"), n, 1, "v1") }

RegenerationInit ==
    /\ Idle
    /\ \E n \in 1..MaxSteps : session_state \in CorrectedSessions(n)

RegenerationNext ==
    \/ render_steps
    \/ on_click_sql_regeneration_button
    \/ Submit
    \/ Poll
    \/ sql_regeneration_done
    \/ regeneration_dialog

RegenerationSpec == RegenerationInit /\ [][RegenerationNext]_vars

(***************************************************************************)
(* on_click_sql_explanation_button, and the feedback flow as a whole: a    *)
(* new ask_details, a new explanation and a regeneration, in any order,    *)
(* on a session that holds corrections.                                    *)
(***************************************************************************)
\* Lines 407-416, after get_sql_analysis_results has returned.
explanation_request(ss, question, sqls, summaries, sql_analysis_results) ==
    [ss EXCEPT
        !.sql_explanation_question = question,
        !.sql_analysis_results = Some(sql_analysis_results),
        !.sql_explanation_steps_with_analysis =
            Some([i \in 1..Min(Len(sqls), Min(Len(summaries), Len(sql_analysis_results))) |->
                     [sql |-> sqls[i], summary |-> summaries[i],
                      sql_analysis_results |-> sql_analysis_results[i]]])]

\* Lines 418-423: the corrections are reset only for a truthy result.
explanation_stored(ss, sql_explanation_results) ==
    [ss EXCEPT
        !.sql_explanation_results = sql_explanation_results,
        !.sql_user_corrections_by_step =
            IF sql_explanation_results # NoneR /\ sql_explanation_results[1] # <<>>
            THEN Some([i \in 1..Len(sql_explanation_results[1]) |-> <<>>])
            ELSE @]

\* Lines 401-417, up to the call of sql_explanation.  The arguments are the
\* question of the session and the lists built by show_asks_details_results
\* (335-341); the
\* engine answers each analysis request with 200, or one of them otherwise.
on_click_sql_explanation_button ==
    /\ AtRest
    /\ calls < MaxCalls
    /\ calls' = calls + 1
    /\ session_state.asks_details_result # NoneR
    /\ caller' = "on_click_sql_explanation_button"
    /\ op' = "sql_explanation"
    /\ \E analysed \in BOOLEAN :
          LET steps == session_state.asks_details_result[1].steps IN
          IF analysed
          THEN /\ session_state' =
                     explanation_request(
                         session_state, session_state.query, cumulative_sqls(steps),
                         [i \in 1..Len(steps) |-> steps[i].summary],
                         [i \in 1..Len(steps) |-> "analysis"])
               /\ pc' = "submit"
          ELSE /\ pc' = "raised"
               /\ UNCHANGED session_state
    /\ query_id' = NoneS
    /\ status' = NoneS
    /\ submit_response' = NoneR
    /\ status_response' = NoneR
    /\ posts' = 0
    /\ gets' = 0
    /\ get_key' = NoneS
    /\ gets_after_terminal' = 0
    /\ result' = NoneR
    /\ st_error' = <<>>
    /\ toast' = <<>>
    /\ UNCHANGED <<asks_type, stream_req, engine, cache, edits, dialog, rendered,
                   sql_regeneration_data, stream, choose_result_n>>

\* Lines 418-423, once sql_explanation has returned.
sql_explanation_return ==
    /\ caller = "on_click_sql_explanation_button"
    /\ op = "sql_explanation" /\ pc = "done"
    /\ session_state' = explanation_stored(session_state, result)
    /\ pc' = "idle"
    /\ op' = "idle"
    /\ caller' = NoneS
    /\ UNCHANGED <<query_id, status, asks_type, submit_response, status_response,
                   posts, gets, get_key, gets_after_terminal, result, st_error,
                   toast, stream_req, engine, cache, calls, edits,
                   sql_regeneration_data, dialog, rendered, stream,
                   choose_result_n>>

ask_details_call == AtRest /\ Call /\ op' = "ask_details"

FeedbackInit ==
    /\ Idle
    /\ \E n \in 1..MaxSteps : session_state \in CorrectedSessions(n)

FeedbackNext ==
    \/ ask_details_call
    \/ on_click_sql_explanation_button
    \/ on_click_sql_regeneration_button
    \/ Submit
    \/ Poll
    \/ ask_details_done
    \/ sql_explanation_done
    \/ sql_explanation_return
    \/ sql_regeneration_done
    \/ regeneration_dialog

FeedbackSpec == FeedbackInit /\ [][FeedbackNext]_vars

(***************************************************************************)
(* show_asks_results (the Choose Result buttons) and the Preview Data      *)
(* button of show_asks_details_results.                                    *)
(***************************************************************************)
\* The loop of lines 223-238 without its break: the last pressed button.
LastPressed(buttons) ==
    IF \E i \in 1..Len(buttons) : buttons[i]
    THEN CHOOSE i \in 1..Len(buttons) :
            /\ buttons[i]
            /\ \A k \in (i + 1)..Len(buttons) : ~buttons[k]
    ELSE 0

\* The index (1-based) at which the loop of lines 223-238 reaches its break,
\* 0 if it runs to the end.
FirstPressed(buttons) ==
    IF \E i \in 1..Len(buttons) : buttons[i]
    THEN CHOOSE i \in 1..Len(buttons) :
            /\ buttons[i]
            /\ \A k \in 1..(i - 1) : ~buttons[k]
    ELSE 0

\* Lines 223-238; the index stored is Python's, from 0.
show_asks_results(ss, buttons) ==
    LET i == FirstPressed(buttons) IN
    IF i = 0 THEN ss
    ELSE [ss EXCEPT
            !.chosen_query_result =
                Some([index |-> i - 1,
                      query |-> ss.query,
                      sql |-> Candidates(ss.asks_results)[i].sql]),
            !.asks_details_result = NoneR,
            !.preview_data_button_index = NoneR,
            !.preview_sql = NoneR]

\* One run of show_asks_results with TEXT_TO_SQL results: the buttons return
\* choose_result_n.  len(None) raises TypeError when asks_results is None.
choose_result ==
    /\ AtRest
    /\ session_state.asks_results_type = "TEXT_TO_SQL"
    /\ IF session_state.asks_results \in AsksResponses
       THEN \E n \in [1..Len(Candidates(session_state.asks_results)) -> BOOLEAN] :
               /\ choose_result_n' = Some(n)
               /\ session_state' = show_asks_results(session_state, n)
               /\ UNCHANGED <<op, pc>>
       ELSE /\ choose_result_n' = NoneR
            /\ op' = "show_asks_results"
            /\ pc' = "raised"
            /\ UNCHANGED session_state
    /\ UNCHANGED <<query_id, status, asks_type, submit_response, status_response,
                   posts, gets, get_key, gets_after_terminal, result, st_error,
                   toast, stream_req, engine, cache, calls, edits, caller,
                   sql_regeneration_data, dialog, rendered, stream>>

on_click_preview_data_button_first(ss, index, full_sqls) ==
    [ss EXCEPT !.preview_data_button_index = Some(index),
               !.preview_sql = Some(full_sqls[1])]

\* Lines 378-380; index is Python's, from 0.
on_click_preview_data_button(ss, index, full_sqls) ==
    [ss EXCEPT !.preview_data_button_index = Some(index),
               !.preview_sql = Some(full_sqls[index + 1])]

\* A click on the Preview Data button of step i (302-307): its arguments are
\* i and the list sqls that show_asks_details_results built from the steps
\* in the session (256-274).
preview_click ==
    /\ AtRest
    /\ session_state.asks_details_result # NoneR
    /\ LET steps == session_state.asks_details_result[1].steps IN
       \E i \in 0..(Len(steps) - 1) :
          session_state' =
             on_click_preview_data_button(session_state, i, cumulative_sqls(steps))
    /\ UNCHANGED <<op, pc, query_id, status, asks_type, submit_response,
                   status_response, posts, gets, get_key, gets_after_terminal,
                   result, st_error, toast, stream_req, engine, cache, calls,
                   edits, caller, sql_regeneration_data, dialog, rendered, stream,
                   choose_result_n>>

\* The session once an ask has finished with TEXT_TO_SQL candidates.
AskedSession ==
    [FreshSession EXCEPT
        !.query = "q1",
        !.asks_results = "cands_a",
        !.asks_results_type = "TEXT_TO_SQL"]

prepare_semantics_call == Call /\ op' = "prepare_semantics"

PreviewInit ==
    /\ Idle
    /\ session_state \in {AskedSession} \cup { ExplainedSession(n) : n \in 1..MaxSteps }

PreviewNext ==
    \/ choose_result
    \/ preview_click
    \/ prepare_semantics_call
    \/ Submit
    \/ Poll
    \/ prepare_semantics_done

PreviewSpec == PreviewInit /\ [][PreviewNext]_vars

(***************************************************************************)
(* display_general_response and display_sql_answer.  A Python string is a  *)
(* sequence of characters here, and += is \o.  The server's stream is the  *)
(* sequence of the events it sends before it closes the connection; the    *)
(* data of each is a JSON object with a `message` field.                   *)
(***************************************************************************)
Messages == { <<>>, <<"a">>, <<"b", "c">> }

Events == { [data |-> [message |-> m]] : m \in Messages }

EventStreams == UNION { [1..n -> Events] : n \in 0..MaxEvents }

DisplayFunctions == {"display_general_response", "display_sql_answer"}

\* Lines 697 and 711.
StreamUrl(f, id) ==
    IF f = "display_general_response"
    THEN <<"/v1/asks/", id, "/streaming-result">>
    ELSE <<"/v1/sql-answers/", id, "/streaming">>

\* The loop body with = in place of +=.
accumulate_last(markdown_content, event) == event.data.message

\* markdown_content += orjson.loads(event.data)["message"]
accumulate(markdown_content, event) == markdown_content \o event.data.message

\* Lines 697-703 (711-717): the request, the client and the empty buffer.
display_call ==
    /\ pc = "idle"
    /\ IF stream = NoneR THEN TRUE ELSE stream[1].returned
    /\ calls < MaxCalls
    /\ calls' = calls + 1
    /\ \E f \in DisplayFunctions, id \in QueryIds, es \in EventStreams :
          /\ stream_req' = id
          /\ stream' = Some([function |-> f,
                             requests |-> << StreamUrl(f, id) >>,
                             events |-> es,
                             received |-> 0,
                             markdown_content |-> <<>>,
                             placeholder |-> <<>>,
                             returned |-> FALSE])
    /\ UNCHANGED <<session_state, op, pc, query_id, status, asks_type,
                   submit_response, status_response, posts, gets, get_key,
                   gets_after_terminal, result, st_error, toast, engine, cache,
                   edits, caller, sql_regeneration_data, dialog, rendered,
                   choose_result_n>>

\* One iteration of `for event in client.events()`; placeholder is the
\* sequence of the texts handed to placeholder.markdown.
stream_event ==
    /\ stream # NoneR
    /\ ~stream[1].returned
    /\ stream[1].received < Len(stream[1].events)
    /\ LET k == stream[1].received + 1
           text == accumulate(stream[1].markdown_content, stream[1].events[k]) IN
       stream' = Some([stream[1] EXCEPT
                          !.received = k,
                          !.markdown_content = text,
                          !.placeholder = Append(@, text)])
    /\ UNCHANGED <<session_state, op, pc, query_id, status, asks_type,
                   submit_response, status_response, posts, gets, get_key,
                   gets_after_terminal, result, st_error, toast, stream_req,
                   engine, cache, calls, edits, caller, sql_regeneration_data,
                   dialog, rendered, choose_result_n>>

\* The server has closed the stream: the for loop ends and the function returns.
stream_end ==
    /\ stream # NoneR
    /\ ~stream[1].returned
    /\ stream[1].received = Len(stream[1].events)
    /\ stream' = Some([stream[1] EXCEPT !.returned = TRUE])
    /\ UNCHANGED <<session_state, op, pc, query_id, status, asks_type,
                   submit_response, status_response, posts, gets, get_key,
                   gets_after_terminal, result, st_error, toast, stream_req,
                   engine, cache, calls, edits, caller, sql_regeneration_data,
                   dialog, rendered, choose_result_n>>

StreamNext == display_call \/ stream_event \/ stream_end

StreamSpec == EngineInit /\ [][StreamNext]_vars

(***************************************************************************)
(* Claims about the polled operations.                                     *)
(***************************************************************************)
AsyncOps == Operations \ {"prepare_semantics"}

Final == status_response[1]

\* The poll loop has just been left with the status s.
EndedWith(s) == pc = "done" /\ status_response # NoneR /\ LoopStatus = s

\* C1 as stated: whenever ask, ask_details, sql_explanation or sql_regeneration
\* ends with status finished, what it stores or returns is the `response`
\* field of the final poll response.
C1_AsStated ==
    (EndedWith("finished") /\ op \in AsyncOps \ {"get_sql_answer"}) =>
        /\ op = "ask" => session_state.asks_results = Final.response
        /\ op = "ask_details" => session_state.asks_details_result = Final.response
        /\ op \in {"sql_explanation", "sql_regeneration"} => result = Final.response

C1_Stored ==
    (EndedWith("finished") /\ op \in AsyncOps \ {"get_sql_answer"}) =>
        /\ (op = "ask" /\ asks_type = "TEXT_TO_SQL") =>
              session_state.asks_results = Final.response
        /\ (op = "ask" /\ asks_type \notin {"TEXT_TO_SQL", "GENERAL"}) =>
              session_state.asks_results = asks_type
        /\ op = "ask_details" => session_state.asks_details_result = Final.response
        /\ op \in {"sql_explanation", "sql_regeneration"} => result = Final.response

\* C1 (amended): ask_details, sql_explanation and sql_regeneration store or
\* return the final response's `response` field unmodified, and so does ask
\* when the final response's type is TEXT_TO_SQL; a finished ask of type
\* GENERAL leaves asks_results as it was and opens the streaming result, and
\* a finished ask of any other type stores the type in asks_results.
C1_ResultIsFinalResponse ==
    [][ /\ C1_Stored'
        /\ (op = "ask" /\ pc = "loop" /\ pc' = "done" /\ status = "finished"
              /\ asks_type = "GENERAL") =>
              /\ session_state'.asks_results = session_state.asks_results
              /\ stream_req' = query_id ]_vars

C1_Witness ==
    /\ EndedWith("finished") /\ op = "ask" /\ asks_type = "TEXT_TO_SQL"
    /\ session_state.asks_results = Final.response
    /\ Final.response \in AsksResponses

\* The failure statuses that end each operation's loop.
FailureSet(o) == IF o = "ask" THEN {"failed", "stopped"} ELSE {"failed"}

\* The notification text carries the error e verbatim, after the fixed lead-in.
Carries(text, e) ==
    /\ Len(text) = 2
    /\ text[1] = "An error occurred while processing the query: "
    /\ text[2] = e

\* A polled operation ends with a status of its failure set without a result.
NoResultStep ==
    /\ result' = NoneR
    /\ session_state'.asks_results \in {session_state.asks_results, NoneS}
    /\ session_state'.asks_details_result
          \in {session_state.asks_details_result, NoneR}
    /\ stream_req' = NoneS

FailureStep == pc = "loop" /\ pc' = "done" /\ LoopStatus \in FailureSet(op)

StoppedSeen(o) == op = o /\ pc = "loop" /\ status = "stopped"

\* C3 as stated: in every asynchronous operation a response with status
\* stopped ends the poll loop (no status GET follows it) and the operation
\* yields no result.
C3_AsStated ==
    [][ (\E o \in AsyncOps : StoppedSeen(o)) =>
          /\ gets' = gets
          /\ pc' = "done"
          /\ result' = NoneR
          /\ session_state' = session_state ]_vars

\* C3 (amended): in ask a response with status stopped ends the poll loop and
\* ask stores nothing, as it does for failed; in get_sql_answer, ask_details,
\* sql_explanation and sql_regeneration stopped is not a terminal status: the
\* loop condition still holds and the next step is another status GET.
C3_StoppedEndsLoop ==
    /\ [](\A o \in AsyncOps \ {"ask"} : StoppedSeen(o) => LoopCondition)
    /\ [][ /\ StoppedSeen("ask") =>
                /\ gets' = gets
                /\ pc' = "done"
                /\ result' = NoneR
                /\ session_state' = session_state
           /\ (\E o \in AsyncOps \ {"ask"} : StoppedSeen(o)) =>
                /\ gets' = gets + 1
                /\ pc' \in {"loop", "raised"} ]_vars

C3_Witness ==
    /\ op = "ask" /\ pc = "done" /\ status = "stopped" /\ gets = 1
    /\ session_state.asks_results = NoneS

\* C4: an invocation of ask, get_sql_answer, ask_details, sql_explanation or
\* sql_regeneration never issues more than one submit POST; a status GET is
\* issued only after the POST was answered 200 and is keyed by the query_id
\* of that answer; no status GET follows a 200 response with a terminal
\* status; an invocation that returns has issued one POST and at least one
\* GET, the last of which carried a terminal status; and once a 200 response
\* carries a terminal status the invocation returns.
C4_Order ==
    op \in AsyncOps =>
        /\ posts <= 1
        /\ gets > 0 =>
              /\ posts = 1
              /\ submit_response[1].code = 200
              /\ get_key = submit_response[1].query_id
        /\ gets_after_terminal = 0
        /\ pc = "done" => (posts = 1 /\ gets >= 1 /\ TerminalObserved)

C5_NonOkAborts ==
    [][ (\/ (submit_response' # NoneR /\ submit_response'[1].code # 200)
         \/ (status_response' # NoneR /\ status_response'[1].code # 200)) =>
          /\ pc' = "raised"
          /\ session_state' = session_state
          /\ status' = status
          /\ result' = NoneR /\ stream_req' = NoneS ]_vars

(***************************************************************************)
(* Claims about the data engine.                                           *)
(***************************************************************************)
\* C6: get_data_from_wren_engine sends no request to the data engine when
\* add_quotes reports failure for the SQL, whatever the dataset type; the SQL
\* of every request it sends is add_quotes' quoted output (no bare
\* identifier is left in it); and on failure add_quotes returns its input
\* unchanged with the flag false.
C6_QuotedOrNothing ==
    engine # NoneR =>
        LET c == engine[1]
            q == add_quotes(c.sql) IN
        /\ ~q.no_error =>
              /\ c.out.request = NoneR
              /\ c.out.outcome = "AssertionError"
              /\ q.quoted_sql = c.sql
        /\ c.out.request # NoneR =>
              /\ q.no_error
              /\ c.out.request[1].sql = q.quoted_sql
              /\ \A i \in 1..Len(c.out.request[1].sql) :
                    c.out.request[1].sql[i] \notin Idents
        /\ (\E i \in 1..Len(c.sql) : c.sql[i] = ")") => ~q.no_error

C6_Witness ==
    /\ engine # NoneR
    /\ engine[1].out.request # NoneR
    /\ engine[1].out.request[1].sql # engine[1].sql
    /\ engine[1].dataset_type # "duckdb"

(***************************************************************************)
(* Claims about the user corrections.                                      *)
(***************************************************************************)
Corrections == session_state.sql_user_corrections_by_step[1]
Inputs == session_state.user_correction[1]
Explanations == session_state.sql_explanation_results[1]

AsSet(list) == { list[k] : k \in 1..Len(list) }

\* C7: every step's correction list holds at most one entry per distinct
\* `before` value, also when several explanation entries of the step map to
\* the same decision point.
C7_OnePerDecisionPoint ==
    \A i \in DOMAIN Corrections :
    \A k1, k2 \in 1..Len(Corrections[i]) :
        Corrections[i][k1].before = Corrections[i][k2].before => k1 = k2

\* Two inputs of step 1 that map to the same decision point hold different
\* texts, and the step has entries for two decision points.
C7_Witness ==
    /\ Inputs[1][1] = "v1" /\ Inputs[1][2] = "v2"
    /\ get_decision_point(Explanations[1][1]) = get_decision_point(Explanations[1][2])
    /\ Len(Corrections[1]) = 2

\* What one edit of input j of step i does to the correction lists.
C8_Effect(i, j) ==
    LET b == get_decision_point(Explanations[i][j])
        text == session_state'.user_correction[1][i][j]
        old == Corrections[i]
        new == session_state'.sql_user_corrections_by_step[1][i]
        has == \E k \in 1..Len(old) : old[k].before = b
        entry == [before |-> b, after |-> [type |-> "nl_expression", value |-> text]] IN
    /\ \A t \in DOMAIN Corrections \ {i} :
          session_state'.sql_user_corrections_by_step[1][t] = Corrections[t]
    /\ (has /\ text # "") =>
          /\ Len(new) = Len(old)
          /\ \A k \in 1..Len(old) :
                new[k] = IF old[k].before = b THEN entry ELSE old[k]
    /\ (has /\ text = "") => new = SelectSeq(old, LAMBDA c : c.before # b)
    /\ ~has => new = Append(old, entry)

\* Two edits for distinct (step, decision point) pairs give the same set of
\* entries in either order.
C8_OrderIrrelevant ==
    \A i1, i2 \in DOMAIN Corrections :
    \A j1 \in 1..Len(Explanations[i1]), j2 \in 1..Len(Explanations[i2]) :
    \A t1, t2 \in CorrectionTexts :
        LET b1 == get_decision_point(Explanations[i1][j1])
            b2 == get_decision_point(Explanations[i2][j2])
            Edit(c, i, b, t) == [c EXCEPT ![i] = merge_correction(c[i], b, t)]
            one == Edit(Edit(Corrections, i1, b1, t1), i2, b2, t2)
            other == Edit(Edit(Corrections, i2, b2, t2), i1, b1, t1) IN
        <<i1, b1>> # <<i2, b2>> =>
            \A i \in DOMAIN Corrections : AsSet(one[i]) = AsSet(other[i])

\* C8: an edit for step s and decision point b replaces the `after` of the
\* entry with before = b when the text is non-empty, removes that entry when
\* the text is empty, and appends (b, text) when there is no such entry; the
\* other entries of step s and the lists of the other steps stay as they
\* were, and the set of entries two edits for distinct decision points leave
\* does not depend on their order.
C8_Merge ==
    /\ []C8_OrderIrrelevant
    /\ [][ \A i \in DOMAIN Inputs : \A j \in DOMAIN Inputs[i] :
             session_state'.user_correction[1][i][j] # Inputs[i][j] =>
                 C8_Effect(i, j) ]_vars

\* The entry that input 2 of step 1 created has been removed by clearing
\* input 1, which maps to the same decision point, while the entry of
\* another decision point stayed.
C8_Witness ==
    /\ Inputs[1][2] = "v1" /\ Inputs[1][1] = "" /\ Inputs[1][3] = "v2"
    /\ Len(Corrections[1]) = 1
    /\ Corrections[1][1].before = get_decision_point(Explanations[1][3])
    /\ Corrections[1][1].after.value = "v2"

(***************************************************************************)
(* Claims about SQL regeneration and the cumulative SQL of the steps.      *)
(***************************************************************************)
StepFields == {"cte_name", "sql", "summary"}

NoCorrectionsField(details) ==
    details # NoneR =>
        \A i \in 1..Len(details[1].steps) : DOMAIN details[1].steps[i] = StepFields

\* The submitted copy equals the stored result in every original field and
\* carries the corrections of its steps.
CopyCarriesCorrections(data, ss) ==
    LET stored == ss.asks_details_result[1]
        by_step == ss.sql_user_corrections_by_step[1] IN
    /\ data.description = stored.description
    /\ Len(data.steps) = Len(stored.steps)
    /\ \A i \in 1..Len(data.steps) :
          /\ \A f \in StepFields : data.steps[i][f] = stored.steps[i][f]
          /\ i <= Len(by_step) =>
                /\ "corrections" \in DOMAIN data.steps[i]
                /\ data.steps[i].corrections = by_step[i]

C9_Step ==
    /\ session_state'.asks_details_result = session_state.asks_details_result
    /\ NoCorrectionsField(session_state'.asks_details_result)
    /\ sql_regeneration_data' # NoneR =>
          CopyCarriesCorrections(sql_regeneration_data'[1], session_state')

\* C9: no step of on_click_sql_regeneration_button changes the stored
\* asks_details_result (description, steps, every field of every step), no
\* step of it ever has a corrections field, and the copy that is submitted
\* carries the corrections.
C9_StoredDetailsUntouched == [][C9_Step]_vars

\* A click has submitted a copy with a non-empty list of corrections.
C9_Witness ==
    /\ caller = "on_click_sql_regeneration_button"
    /\ posts = 1
    /\ sql_regeneration_data # NoneR
    /\ \E i \in 1..Len(sql_regeneration_data[1].steps) :
          /\ "corrections" \in DOMAIN sql_regeneration_data[1].steps[i]
          /\ sql_regeneration_data[1].steps[i].corrections # <<>>

\* A piece of a built SQL text without its whitespace, as words.
Words(piece) ==
    CASE piece = "WITH "   -> <<"WITH">>
      [] piece = ",\n"     -> <<",">>
      [] piece = "\n\n"    -> <<>>
      [] piece = " AS ( "  -> <<"AS", "(">>
      [] piece = " )"      -> <<")">>
      [] OTHER             -> <<piece>>

RECURSIVE UpToWhitespace(_)
UpToWhitespace(sql) ==
    IF sql = <<>> THEN <<>> ELSE Words(Head(sql)) \o UpToWhitespace(Tail(sql))

RECURSIVE WithList(_, _)
\* c_1 AS ( s_1 ) , ... , c_k AS ( s_k )
WithList(steps, k) ==
    IF k = 0 THEN <<>>
    ELSE (IF k = 1 THEN <<>> ELSE WithList(steps, k - 1) \o <<",">>)
         \o <<steps[k].cte_name, "AS", "(", steps[k].sql, ")">>

ExpectedSql(steps, i) ==
    IF i = 1 THEN <<steps[1].sql>>
    ELSE <<"WITH">> \o WithList(steps, i - 1) \o <<steps[i].sql>>

\* The names that are given a fragment in a built SQL text, in order.
CteNamesIn(sql) ==
    LET names[k \in 0..Len(sql)] ==
            IF k = 0 THEN <<>>
            ELSE IF k < Len(sql) /\ sql[k + 1] = " AS ( "
                 THEN Append(names[k - 1], sql[k])
                 ELSE names[k - 1]
    IN names[Len(sql)]

CumulativeOf(sqls, steps) ==
    \A i \in 1..Len(sqls) :
        /\ i <= Len(steps)
        /\ UpToWhitespace(sqls[i]) = ExpectedSql(steps, i)
        /\ CteNamesIn(sqls[i]) = [j \in 1..(i - 1) |-> steps[j].cte_name]
        /\ \A k \in 1..Len(CteNamesIn(sqls[i])) :
              CteNamesIn(sqls[i])[k] # steps[i].cte_name

\* C10: the SQL built for a step, in the details view and on both sides of
\* the regeneration dialog, is the step's fragment alone for the first step
\* and otherwise WITH the prior steps' named fragments, in step order,
\* followed by the step's fragment, up to whitespace; the step's own CTE name
\* is not among the names.
C10_CumulativeSql ==
    /\ rendered # NoneR =>
          /\ Len(rendered[1].sqls) = Len(session_state.asks_details_result[1].steps)
          /\ CumulativeOf(rendered[1].sqls, session_state.asks_details_result[1].steps)
    /\ dialog # NoneR =>
          /\ Len(dialog[1].original_sqls) =
                Len(session_state.asks_details_result[1].steps)
          /\ CumulativeOf(dialog[1].original_sqls,
                          session_state.asks_details_result[1].steps)
          /\ dialog[1].regenerated_sqls # <<>> =>
                CumulativeOf(dialog[1].regenerated_sqls,
                             session_state.sql_regeneration_results[1].steps)

\* The details view and both sides of the dialog have built the SQL of a
\* third step, and the regenerated SQL differs from the original.
C10_Witness ==
    /\ rendered # NoneR /\ Len(rendered[1].sqls) >= 3
    /\ dialog # NoneR
    /\ Len(dialog[1].original_sqls) >= 3
    /\ Len(dialog[1].regenerated_sqls) >= 3
    /\ dialog[1].regenerated_sqls[3] # dialog[1].original_sqls[3]

(***************************************************************************)
(* Claims about stale state and about failures.                            *)
(***************************************************************************)
\* C13: every invocation of prepare_semantics issues at least one status GET
\* after its POST, and the outcome it reports is the status observed by a GET
\* of that invocation, also when semantics_preparation_status still holds a
\* terminal value of an earlier invocation.
C13_StatusObserved ==
    (op = "prepare_semantics" /\ pc = "done") =>
        /\ posts = 1
        /\ gets >= 1
        /\ status_response # NoneR
        /\ session_state.semantics_preparation_status = status_response[1].status
        /\ toast = IF status_response[1].status = "failed"
                   THEN <<"An error occurred while preparing the semantics">>
                   ELSE <<"Semantics is prepared successfully">>

\* C14: when the sql-regenerations poll ends in failed, the click handler
\* shows the failure notification and completes without a further error; the
\* dialog is not built from the absent result.
C14_FailedRegenerationCompletes ==
    [][ (caller = "on_click_sql_regeneration_button" /\ op = "sql_regeneration"
           /\ pc = "done" /\ status = "failed") =>
          /\ Carries(st_error, Final.error)
          /\ pc' # "raised"
          /\ dialog' # NoneR => dialog'[1].exception # "TypeError" ]_vars

\* C15: for every dataset type, when quoting succeeds and the engine answers
\* 200, get_data_from_wren_engine with return_df=False returns the engine's
\* JSON payload, and get_sql_answer goes on to its submit POST.
C15_PayloadReturned ==
    (op = "get_sql_answer" /\ engine # NoneR
       /\ ~engine[1].return_df
       /\ engine[1].out.request # NoneR
       /\ engine[1].response.code = 200) =>
        /\ engine[1].out.outcome = "json"
        /\ engine[1].out.value = engine[1].response.json
        /\ pc = "raised" => posts >= 1

\* C16: after an ask has ended (finished, failed or stopped), candidates held
\* in asks_results with asks_results_type TEXT_TO_SQL are the answer to the
\* question held in query.
C16_CandidatesAnswerQuery ==
    (op = "ask" /\ pc = "done"
       /\ session_state.asks_results_type = "TEXT_TO_SQL"
       /\ session_state.asks_results \in AsksResponses) =>
        AnswerTo(session_state.asks_results) = session_state.query

\* C17: no entry of sql_user_corrections_by_step has an empty `after` value.
C17_NoEmptyAfter ==
    session_state.sql_user_corrections_by_step # NoneR =>
        \A i \in 1..Len(session_state.sql_user_corrections_by_step[1]) :
            \A k \in 1..Len(session_state.sql_user_corrections_by_step[1][i]) :
                session_state.sql_user_corrections_by_step[1][i][k].after.value # ""

(***************************************************************************)
(* Claims about the streaming consumers.                                   *)
(***************************************************************************)
RECURSIVE MessagesUpTo(_, _)
\* The `message` fields of events 1..k, concatenated in arrival order.
MessagesUpTo(events, k) ==
    IF k = 0 THEN <<>>
    ELSE MessagesUpTo(events, k - 1) \o events[k].data.message

IsPrefix(a, b) == Len(a) <= Len(b) /\ SubSeq(b, 1, Len(a)) = a

\* C12: after the k-th event the displayed text is the concatenation of the
\* messages of events 1..k in arrival order, each displayed text extends the
\* previous one, and the stream is requested once: the consumer stops when
\* the stream ends.
C12_DisplayedText ==
    stream # NoneR =>
        LET c == stream[1] IN
        /\ Len(c.placeholder) = c.received
        /\ \A k \in 1..c.received :
              /\ c.placeholder[k] = MessagesUpTo(c.events, k)
              /\ k > 1 => IsPrefix(c.placeholder[k - 1], c.placeholder[k])
        /\ c.requests = << StreamUrl(c.function, stream_req) >>
        /\ c.returned => c.received = Len(c.events)

\* A stream of three events, two of them with text, was consumed to its end.
C12_Witness ==
    /\ stream # NoneR
    /\ stream[1].returned
    /\ stream[1].received >= 3
    /\ Len(stream[1].placeholder[1]) > 0
    /\ Len(stream[1].placeholder[3]) > Len(stream[1].placeholder[1])

(***************************************************************************)
(* Claims about choosing a candidate and previewing a step.                *)
(***************************************************************************)
Pressed(n) == { i \in 1..Len(n) : n[i] }

Lowest(S) == CHOOSE i \in S : \A j \in S : i <= j

ResetKeys == {"asks_details_result", "preview_data_button_index", "preview_sql"}

C11_Effect ==
    session_state.asks_results \in AsksResponses =>
        LET pressed == Pressed(choose_result_n'[1]) IN
        IF pressed = {}
        THEN /\ session_state'.chosen_query_result = session_state.chosen_query_result
             /\ \A k \in ResetKeys : session_state'[k] = session_state[k]
        ELSE /\ session_state'.chosen_query_result =
                   Some([index |-> Lowest(pressed) - 1,
                         query |-> session_state.query,
                         sql |-> Candidates(session_state.asks_results)
                                    [Lowest(pressed)].sql])
             /\ \A k \in ResetKeys : session_state'[k] = NoneR

\* C11: in a run of show_asks_results with TEXT_TO_SQL results, the button of
\* candidate i stores {index i, the session's query, the sql of candidate i}
\* as chosen_query_result and resets asks_details_result,
\* preview_data_button_index and preview_sql; with no button pressed these
\* four keys stay as they are; of several pressed buttons the lowest counts.
C11_ChosenCandidate == [][choose_result => C11_Effect]_vars

\* Both buttons were pressed and candidate 0 is the chosen one.
C11_Witness ==
    /\ choose_result_n = Some(<<TRUE, TRUE>>)
    /\ session_state.chosen_query_result =
          Some([index |-> 0, query |-> "q1", sql |-> "sql_a0"])
    /\ session_state.asks_details_result = NoneR

\* C19: preview_data_button_index is None exactly when preview_sql is None,
\* and when both are set preview_sql is the cumulative SQL of the step at
\* that index.
C19_PreviewPair ==
    /\ session_state.preview_data_button_index = NoneR
          <=> session_state.preview_sql = NoneR
    /\ session_state.preview_data_button_index # NoneR =>
          /\ session_state.asks_details_result # NoneR
          /\ session_state.preview_data_button_index[1] + 1
                <= Len(session_state.asks_details_result[1].steps)
          /\ UpToWhitespace(session_state.preview_sql[1]) =
                ExpectedSql(session_state.asks_details_result[1].steps,
                            session_state.preview_data_button_index[1] + 1)

\* The third step is the one previewed.
C19_Witness ==
    /\ session_state.preview_data_button_index = Some(2)
    /\ session_state.preview_sql # NoneR
    /\ Len(session_state.preview_sql[1]) > 1

(***************************************************************************)
(* Claims about the corrections that are submitted.                        *)
(***************************************************************************)
NoCorrectionsHeld(by_step) ==
    by_step # NoneR => \A i \in 1..Len(by_step[1]) : by_step[1][i] = <<>>

\* C18: the corrections held, and those attached to the steps that are
\* submitted, were entered against the explanation of the current
\* asks_details_result: when the session holds no explanation (ask_details
\* has stored a new result, or the last sql_explanation failed), no
\* corrections are held and none is attached.
C18_CorrectionsOfCurrentResult ==
    session_state.sql_explanation_results = NoneR =>
        /\ NoCorrectionsHeld(session_state.sql_user_corrections_by_step)
        /\ sql_regeneration_data # NoneR =>
              \A i \in 1..Len(sql_regeneration_data[1].steps) :
                  "corrections" \in DOMAIN sql_regeneration_data[1].steps[i] =>
                      sql_regeneration_data[1].steps[i].corrections = <<>>

====
